---- MODULE Spec2Model ----
(***************************************************************************)
(* A model of excel_correlations: the filter matcher (util.py), the        *)
(* column and combination aggregators and their orchestrator (analyze.py), *)
(* and the per-file report loop (main.py, load.py, report.py).            *)
(*                                                                         *)
(* Text is modelled as a sequence of one-character strings, so that        *)
(* str.strip(), str.lower() and the ordering of group keys are computed    *)
(* character by character, as Python computes them.                        *)
(*                                                                         *)
(* Specifications:                                                         *)
(*   Spec, SpecOrder  an Analyzer over tables of a filter column and two   *)
(*                    analysis columns (ranking, caps, thresholds, errors) *)
(*   SpecFilter       an Analyzer over one column of every kind of cell    *)
(*                    (the filter matcher)                                 *)
(*   SpecCells        an Analyzer over tables with every kind of empty     *)
(*                    cell (grouping of empty values)                      *)
(*   SpecMain         main's loop over the input files of a data directory *)
(***************************************************************************)
EXTENDS Integers, Sequences, FiniteSets, TLC

(***************************************************************************)
(* Bounds of the model.                                                    *)
(***************************************************************************)
\* Largest number of rows of a loaded table.
MaxRows == 3

(***************************************************************************)
(* Text: characters, str.strip(), str.lower(), code-point ordering.        *)
(***************************************************************************)
\* The code point of each character the model's texts are written in.
Ord(c) ==
    CASE c = " " -> 32
      [] c = "." -> 46
      [] c = "1" -> 49
      [] c = "<" -> 60
      [] c = ">" -> 62
      [] c = "A" -> 65
      [] c = "B" -> 66
      [] c = "E" -> 69
      [] c = "L" -> 76
      [] c = "M" -> 77
      [] c = "N" -> 78
      [] c = "P" -> 80
      [] c = "R" -> 82
      [] c = "S" -> 83
      [] c = "T" -> 84
      [] c = "X" -> 88
      [] c = "Y" -> 89
      [] c = "_" -> 95
      [] c = "a" -> 97
      [] c = "b" -> 98
      [] c = "c" -> 99
      [] c = "d" -> 100
      [] c = "e" -> 101
      [] c = "f" -> 102
      [] c = "g" -> 103
      [] c = "h" -> 104
      [] c = "i" -> 105
      [] c = "k" -> 107
      [] c = "l" -> 108
      [] c = "m" -> 109
      [] c = "n" -> 110
      [] c = "o" -> 111
      [] c = "p" -> 112
      [] c = "q" -> 113
      [] c = "r" -> 114
      [] c = "s" -> 115
      [] c = "t" -> 116
      [] c = "u" -> 117
      [] c = "v" -> 118
      [] c = "x" -> 120
      [] c = "y" -> 121
      [] c = "z" -> 122

\* str.lower() on one character: the upper-case letters map to their
\* lower-case partners, every other character is kept.
LowerChar(c) ==
    CASE c = "A" -> "a"
      [] c = "B" -> "b"
      [] c = "E" -> "e"
      [] c = "L" -> "l"
      [] c = "M" -> "m"
      [] c = "N" -> "n"
      [] c = "P" -> "p"
      [] c = "R" -> "r"
      [] c = "S" -> "s"
      [] c = "T" -> "t"
      [] c = "X" -> "x"
      [] c = "Y" -> "y"
      [] OTHER -> c

\* str.lower()
lower(s) == [i \in 1..Len(s) |-> LowerChar(s[i])]

\* str.isspace() on one character of the model's alphabet.
IsSpace(c) == c = " "

RECURSIVE lstrip(_)
lstrip(s) ==
    IF s # <<>> /\ IsSpace(Head(s)) THEN lstrip(Tail(s)) ELSE s

RECURSIVE rstrip(_)
rstrip(s) ==
    IF s # <<>> /\ IsSpace(s[Len(s)]) THEN rstrip(SubSeq(s, 1, Len(s) - 1)) ELSE s

\* str.strip(): leading and trailing whitespace removed, inner whitespace kept.
strip(s) == rstrip(lstrip(s))

\* Python's < on str: lexicographic by code point, a proper prefix first.
RECURSIVE StrLess(_, _)
StrLess(s, t) ==
    IF t = <<>> THEN FALSE
    ELSE IF s = <<>> THEN TRUE
    ELSE IF Ord(Head(s)) # Ord(Head(t)) THEN Ord(Head(s)) < Ord(Head(t))
    ELSE StrLess(Tail(s), Tail(t))

\* < on tuples of str (the order of a multi-column groupby's keys).
RECURSIVE TupleLess(_, _)
TupleLess(a, b) ==
    IF b = <<>> THEN FALSE
    ELSE IF a = <<>> THEN TRUE
    ELSE IF Head(a) # Head(b) THEN StrLess(Head(a), Head(b))
    ELSE TupleLess(Tail(a), Tail(b))

(***************************************************************************)
(* Cells.  A raw cell is None, a float NaN, a missing marker that is not a *)
(* float (pandas' NaT of a date column), a str, or an int.                 *)
(***************************************************************************)
None == [kind |-> "None", s |-> <<>>]
NaN == [kind |-> "float_nan", s |-> <<>>]
NaT == [kind |-> "NaT", s |-> <<>>]
Text(s) == [kind |-> "str", s |-> s]
IntCell(digits) == [kind |-> "int", s |-> digits]

\* str(x) of a cell that is not None.
str(x) ==
    CASE x.kind = "float_nan" -> <<"n", "a", "n">>
      [] x.kind = "NaT" -> <<"N", "a", "T">>
      [] OTHER -> x.s

\* pd.isna(x) on a scalar.
isna(x) == x.kind \in {"None", "float_nan", "NaT"}

\* SPECIAL_EMPTY with the token "null" forgotten
SPECIAL_EMPTY_without_null ==
    { <<"l", "e", "e", "r">>, <<"e", "m", "p", "t", "y">>,
      <<"b", "l", "a", "n", "k">>, <<"n", "o", "n", "e">>, <<>> }

\* util.py: SPECIAL_EMPTY
SPECIAL_EMPTY ==
    { <<"l", "e", "e", "r">>, <<"e", "m", "p", "t", "y">>,
      <<"b", "l", "a", "n", "k">>, <<"n", "u", "l", "l">>,
      <<"n", "o", "n", "e">>, <<>> }

\* util.py: the not-empty tokens of match_filter
NOT_EMPTY_TOKENS ==
    { <<"n", "i", "c", "h", "t", "l", "e", "e", "r">>,
      <<"n", "o", "t", "e", "m", "p", "t", "y">>,
      <<"n", "o", "t", "_", "e", "m", "p", "t", "y">> }

\* util.py: is_empty_value
is_empty_value(x) ==
    IF x.kind = "None" THEN TRUE
    ELSE IF isna(x) THEN TRUE
    ELSE IF x.kind = "str" /\ strip(x.s) = <<>> THEN TRUE
    ELSE FALSE

\* util.py: normalize_str
normalize_str(x) ==
    IF x.kind = "None" \/ (x.kind = "float_nan" /\ isna(x)) THEN <<>>
    ELSE strip(str(x))

\* util.py: parse_filter_value (the raw filter value is a str)
parse_filter_value(raw) == lower(normalize_str(Text(raw)))

\* util.py: match_filter; series is a sequence of cells, the result a
\* sequence of booleans of the same length.
match_filter(series, filter_value_raw) ==
    LET v == parse_filter_value(filter_value_raw)
    IN  IF v \in SPECIAL_EMPTY
        THEN [i \in 1..Len(series) |-> is_empty_value(series[i])]
        ELSE IF v \in NOT_EMPTY_TOKENS
        THEN [i \in 1..Len(series) |-> ~is_empty_value(series[i])]
        ELSE [i \in 1..Len(series) |-> lower(normalize_str(series[i])) = v]

(***************************************************************************)
(* Tables.  A DataFrame is its ordered column names and its rows; a row is *)
(* a sequence of cells aligned with the column names.  A column name is a  *)
(* text.                                                                   *)
(***************************************************************************)
DataFrame(columns, rows) == [columns |-> columns, rows |-> rows]

\* the set of names in a sequence of names
Names(cols) == {cols[j] : j \in 1..Len(cols)}

\* c in df.columns
HasColumn(d, c) == c \in Names(d.columns)

ColumnIndex(d, c) == CHOOSE j \in 1..Len(d.columns) : d.columns[j] = c

\* df[c]: the series of the cells of column c, one per row
Series(d, c) == [i \in 1..Len(d.rows) |-> d.rows[i][ColumnIndex(d, c)]]

\* len(df)
len(d) == Len(d.rows)

\* mask.sum(), and the "sum" aggregate of a 0/1 column over a set of rows
CountTrue(mask, rows) == Cardinality({i \in rows : mask[i]})

(***************************************************************************)
(* pandas: groupby(...).agg(total = count, matched = sum).reset_index(),   *)
(* sort_values(..., ascending = False) and head(n).                        *)
(***************************************************************************)
\* The distinct keys in ascending order (groupby's sort = True).
RECURSIVE SortedKeys(_)
SortedKeys(S) ==
    IF S = {} THEN <<>>
    ELSE LET m == CHOOSE k \in S : \A o \in S \ {k} : TupleLess(k, o)
         IN  <<m>> \o SortedKeys(S \ {m})

\* The distinct keys in the order of their first row (a groupby with
\* sort = False): not what the code asks for.
RECURSIVE FirstSeenKeys(_)
FirstSeenKeys(keys) ==
    IF keys = <<>> THEN <<>>
    ELSE LET front == FirstSeenKeys(SubSeq(keys, 1, Len(keys) - 1))
             k == keys[Len(keys)]
         IN  IF k \in Names(front) THEN front ELSE front \o <<k>>

\* The group keys of a groupby that drops the empty key (dropna = True on a
\* column whose empty cells were left missing): not what the code asks for.
GroupKeysDropEmpty(keys) ==
    SortedKeys({keys[i] : i \in 1..Len(keys)} \ {<< <<>> >>})

GroupKeysFirstSeen(keys) == FirstSeenKeys(keys)

\* The group keys of groupby(by, dropna = False): every distinct key, sorted.
GroupKeys(keys) == SortedKeys({keys[i] : i \in 1..Len(keys)})

\* keys[i] is the tuple of group-by values of row i, matched[i] its 0/1 flag.
\* One record per group: total = count of rows, matched = sum of flags.
groupby_agg(keys, matched) ==
    LET ks == GroupKeys(keys)
    IN  [j \in 1..Len(ks) |->
            [key |-> ks[j],
             total |-> Cardinality({i \in 1..Len(keys) : keys[i] = ks[j]}),
             matched |-> CountTrue(matched, {i \in 1..Len(keys) : keys[i] = ks[j]})]]

\* The sign of a[col] - b[col].  pct = matched / total * 100 is compared as
\* the fraction it is (total >= 1 in every group).
Compare(a, b, col) ==
    LET d == CASE col = "pct" -> a.matched * b.total - b.matched * a.total
               [] col = "matched" -> a.matched - b.matched
               [] col = "total" -> a.total - b.total
    IN  IF d > 0 THEN 1 ELSE IF d < 0 THEN -1 ELSE 0

\* a sorts strictly before b under sort_values(by, ascending = all False)
RECURSIVE SortsBefore(_, _, _)
SortsBefore(a, b, by) ==
    IF by = <<>> THEN FALSE
    ELSE IF Compare(a, b, Head(by)) # 0 THEN Compare(a, b, Head(by)) > 0
    ELSE SortsBefore(a, b, Tail(by))

\* sort_values(by, ascending = [False, ...]): a stable sort, rows that tie
\* on every column of by keep their order.
RECURSIVE sort_values(_, _)
sort_values(grp, by) ==
    IF grp = <<>> THEN <<>>
    ELSE LET rest == sort_values(SubSeq(grp, 1, Len(grp) - 1), by)
             x == grp[Len(grp)]
             p == Cardinality({j \in 1..Len(rest) : ~SortsBefore(x, rest[j], by)})
         IN  SubSeq(rest, 1, p) \o <<x>> \o SubSeq(rest, p + 1, Len(rest))

\* head(n): the first n rows; for n < 0 all but the last -n rows.
head(grp, n) ==
    IF n >= 0 THEN SubSeq(grp, 1, IF n < Len(grp) THEN n ELSE Len(grp))
    ELSE SubSeq(grp, 1, IF Len(grp) + n > 0 THEN Len(grp) + n ELSE 0)

\* grp[grp["total"] >= min_group_size]
FilterTiny(grp, min_group_size) ==
    SelectSeq(grp, LAMBDA r : r.total >= min_group_size)

(***************************************************************************)
(* analyze.py                                                              *)
(***************************************************************************)
EMPTY == <<"<", "E", "M", "P", "T", "Y", ">">>

NoError == [type |-> "none", message |-> "", names |-> <<>>]
KeyError(message, names) == [type |-> "KeyError", message |-> message, names |-> names]

\* ValueStats (pct is derived from total and matched)
ValueStats(value, total, matched) ==
    [value |-> value, total |-> total, matched |-> matched]

\* ComboRow
ComboRow(columns, values, total, matched) ==
    [columns |-> columns, values |-> values, total |-> total, matched |-> matched]

\* Analyzer.validate_columns: the error it raises, NoError when it returns
validate_columns(d, cols) ==
    LET missing == SelectSeq(cols, LAMBDA c : ~HasColumn(d, c))
    IN  IF missing # <<>> THEN KeyError("Columns not found in data", missing)
        ELSE NoError

\* Analyzer.build_filter_mask: error is NoError when a mask is returned
build_filter_mask(d, spec) ==
    IF ~HasColumn(d, spec.column)
    THEN [error |-> KeyError("Filter column not found", <<spec.column>>), mask |-> <<>>]
    ELSE [error |-> NoError, mask |-> match_filter(Series(d, spec.column), spec.value)]

\* the sort columns of analyze_columns with the percentage forgotten
ColumnSortBy_no_pct == <<"matched", "total">>

\* the sort columns of analyze_columns
ColumnSortBy == <<"pct", "matched", "total">>

\* the sort columns of analyze_combos with the percentage put first
ComboSortBy_with_pct == <<"pct", "matched", "total">>

\* the sort columns of analyze_combos
ComboSortBy == <<"matched", "total">>

\* the body of analyze_columns' loop: the ColumnAnalysis of one column
ColumnAnalysis(d, mask, col, top_values_per_col, min_group_size) ==
    LET s == [i \in 1..len(d) |-> <<normalize_str(Series(d, col)[i])>>]
        grp == groupby_agg(s, mask)
        kept == FilterTiny(grp, min_group_size)
        top == head(sort_values(kept, ColumnSortBy), top_values_per_col)
    IN  [column |-> col,
         stats |-> [j \in 1..Len(top) |->
                       ValueStats(IF top[j].key[1] # <<>> THEN top[j].key[1] ELSE EMPTY,
                                  top[j].total, top[j].matched)]]

\* Analyzer.analyze_columns: (results, mask), or the error raised
analyze_columns(d, filter_spec, analyze_cols, top_values_per_col, min_group_size) ==
    LET v == validate_columns(d, analyze_cols)
        m == build_filter_mask(d, filter_spec)
    IN  IF v.type # "none" THEN [error |-> v, results |-> <<>>, mask |-> <<>>]
        ELSE IF m.error.type # "none" THEN [error |-> m.error, results |-> <<>>, mask |-> <<>>]
        ELSE [error |-> NoError,
              results |-> [j \in 1..Len(analyze_cols) |->
                              ColumnAnalysis(d, m.mask, analyze_cols[j],
                                             top_values_per_col, min_group_size)],
              mask |-> m.mask]

\* norm_df of analyze_combos: per row the normalized cells of analyze_cols,
\* the empty text replaced by the placeholder
norm_df(d, analyze_cols) ==
    [i \in 1..len(d) |->
        [j \in 1..Len(analyze_cols) |->
            LET n == normalize_str(Series(d, analyze_cols[j])[i])
            IN  IF n = <<>> THEN EMPTY ELSE n]]

\* the body of analyze_combos' loop: the ComboAnalysis of prefix length k
ComboAnalysis(d, filter_mask, analyze_cols, k, top_n, min_group_size) ==
    LET cols_k == SubSeq(analyze_cols, 1, k)
        nd == norm_df(d, analyze_cols)
        keys == [i \in 1..len(d) |-> SubSeq(nd[i], 1, k)]
        grp == groupby_agg(keys, filter_mask)
        kept == FilterTiny(grp, min_group_size)
        top == head(sort_values(kept, ComboSortBy), top_n)
    IN  [columns |-> cols_k,
         top |-> [j \in 1..Len(top) |->
                     ComboRow(cols_k, top[j].key, top[j].total, top[j].matched)]]

\* Analyzer.analyze_combos
analyze_combos(d, filter_mask, analyze_cols, top_n, min_group_size) ==
    [k \in 1..Len(analyze_cols) |->
        ComboAnalysis(d, filter_mask, analyze_cols, k, top_n, min_group_size)]

\* the percentage without the guard for an empty table
PctUnguarded(matched, total) == [num |-> 100 * matched, den |-> total]

\* 0.0 if total == 0 else 100.0 * matched / total, as the fraction it is
\* (0.0 is 0 / 1)
Pct(matched, total) ==
    IF total = 0 THEN [num |-> 0, den |-> 1] ELSE [num |-> 100 * matched, den |-> total]

\* AnalysisResult, with the mask it was computed from and the error raised
\* instead (status "error": no result was returned)
NoResult ==
    [status |-> "none", error |-> NoError, file_rows |-> 0,
     filter_matched_total |-> 0, filter_matched_pct |-> Pct(0, 0),
     per_column |-> <<>>, combos |-> <<>>, mask |-> <<>>]

Raised(e) == [NoResult EXCEPT !.status = "error", !.error = e]

\* Analyzer.run
run(d, filter_spec, analyze_cols, top_values_per_col, combo_top_n, min_group_size) ==
    LET per_col == analyze_columns(d, filter_spec, analyze_cols,
                              top_values_per_col, min_group_size)
    IN  IF per_col.error.type # "none" THEN Raised(per_col.error)
        ELSE LET total == len(d)
                 matched_total == CountTrue(per_col.mask, 1..Len(per_col.mask))
             IN  [status |-> "ok", error |-> NoError,
                  file_rows |-> total,
                  filter_matched_total |-> matched_total,
                  filter_matched_pct |-> Pct(matched_total, total),
                  per_column |-> per_col.results,
                  combos |-> analyze_combos(d, per_col.mask, analyze_cols,
                                            combo_top_n, min_group_size),
                  mask |-> per_col.mask]

(***************************************************************************)
(* State.                                                                  *)
(***************************************************************************)
VARIABLES
    df,        \* Analyzer.df: the table under analysis
    call,      \* the arguments of the last Analyzer.run
    result,    \* what the last Analyzer.run returned or raised
    data_dir,  \* the files of the data directory: path -> table
    args,      \* main's parsed command line
    files,     \* main: the resolved list of input paths
    idx,       \* main: the position of the for loop in files
    out_dir,   \* the output directory: report name -> report document
    pc         \* an Analyzer: "analyzer", "returned"; main: "start", "loop", "done", "failed"

vars == <<df, call, result, data_dir, args, files, idx, out_dir, pc>>

main_vars == <<data_dir, args, files, idx, out_dir>>

\* util.py: FilterSpec
FilterSpec(column, value) == [column |-> column, value |-> value]

\* the arguments of one Analyzer.run
Call(filter_spec, analyze_cols, top_values_per_col, combo_top_n, min_group_size) ==
    [filter_spec |-> filter_spec, analyze_cols |-> analyze_cols,
     top_values_per_col |-> top_values_per_col, combo_top_n |-> combo_top_n,
     min_group_size |-> min_group_size]

NoCall == Call(FilterSpec(<<>>, <<>>), <<>>, 0, 0, 0)

\* Analyzer.run's defaults
DefaultTopValues == 30
DefaultTopCombos == 10
DefaultMinGroupSize == 1

(***************************************************************************)
(* Inputs.                                                                 *)
(***************************************************************************)
f == <<"f">>
g == <<"g">>
h == <<"h">>
q == <<"q">>
r == <<"r">>
z == <<"z">>

leer == <<"l", "e", "e", "r">>
nichtleer == <<"n", "i", "c", "h", "t", "l", "e", "e", "r">>

\* every table of at most MaxRows rows drawn from a set of rows
Tables(columns, rowset) ==
    {DataFrame(columns, rows) : rows \in UNION {[1..n -> rowset] : n \in 0..MaxRows}}

\* Tables for the ranking: a filter column f and two analysis columns.
RankTables ==
    Tables(<<f, g, h>>,
           {<<cf, cg, ch>> : cf \in {Text(<<>>), Text(<<"y">>)},
                             cg \in {Text(<<"a">>), Text(<<"b">>)},
                             ch \in {Text(<<"x">>), None}})

\* The caps (top_values_per_col, combo_top_n) of the calls.  The first only
\* reaches analyze_columns and the second only analyze_combos, so a few
\* pairs cover what each of them does under the caps 0, 1 and 2.
CapPairs == {<<0, 1>>, <<1, 2>>, <<2, 0>>}

RankCalls ==
    {Call(FilterSpec(f, leer), cols, caps[1], caps[2], m) :
        cols \in {<<g>>, <<g, h>>, <<h, g>>}, caps \in CapPairs, m \in {1, 2}}
    \cup
    {Call(FilterSpec(fc, leer), cols, DefaultTopValues, DefaultTopCombos, DefaultMinGroupSize) :
        fc \in {f, z}, cols \in {<<g, h>>, <<q, g, r>>, <<h, q>>}}

\* The calls for the comparison of a table with its row permutations.
OrderCalls ==
    {Call(FilterSpec(f, leer), cols, n, n, m) :
        cols \in {<<g>>, <<h, g>>}, n \in {1, 2}, m \in {1, 2}}

\* Tables for the filter matcher: one column of every kind of cell.
FilterCells ==
    {None, NaN, NaT, Text(<<>>), Text(<<" ", " ">>), Text(<<"x">>), Text(<<" ", "X">>),
     Text(<<"n", "u", "l", "l">>), Text(<<"N", "o", "n", "e">>), IntCell(<<"1">>)}

FilterTables == Tables(<<g>>, {<<c>> : c \in FilterCells})

FilterValues ==
    {leer, <<" ", "L", "E", "E", "R">>, <<"e", "m", "p", "t", "y">>,
     <<"b", "l", "a", "n", "k">>, <<"n", "u", "l", "l">>, <<"N", "o", "n", "e">>,
     <<>>, <<" ">>, nichtleer, <<"n", "o", "t", "e", "m", "p", "t", "y">>,
     <<"n", "o", "t", "_", "e", "m", "p", "t", "y">>,
     <<"x">>, <<"X", " ">>, <<"1">>, <<"n", "a", "t">>}

FilterCalls ==
    {Call(FilterSpec(g, v), <<g>>, DefaultTopValues, DefaultTopCombos, DefaultMinGroupSize) :
        v \in FilterValues}

\* Tables for the grouping of empty cells: g holds every kind of empty cell,
\* the placeholder's own text and a plain value.
CellTables ==
    Tables(<<g, h>>,
           {<<cg, ch>> : cg \in {None, NaN, NaT, Text(<<" ">>), Text(EMPTY), Text(<<"x">>)},
                         ch \in {Text(<<"a">>), None}})

CellCalls ==
    {Call(FilterSpec(g, v), cols, DefaultTopValues, DefaultTopCombos, DefaultMinGroupSize) :
        v \in {leer, <<"X">>}, cols \in {<<g, h>>, <<h, g>>}}
    \cup
    {Call(FilterSpec(g, nichtleer), <<g>>, DefaultTopValues, DefaultTopCombos,
          DefaultMinGroupSize)}
    \cup
    {Call(FilterSpec(h, leer), <<g, h>>, caps[1], DefaultTopCombos, caps[2]) :
        caps \in {<<DefaultTopValues, 0>>, <<1, 0>>, <<DefaultTopValues, 2>>}}

(***************************************************************************)
(* An Analyzer in use, as main uses one: Analyzer(df), then Analyzer.run.   *)
(***************************************************************************)
NoMain ==
    /\ data_dir = <<>>
    /\ args = NoCall
    /\ files = <<>>
    /\ idx = 0
    /\ out_dir = <<>>

\* Analyzer.__init__
AnalyzerInit(tables) ==
    /\ pc = "analyzer"
    /\ df \in tables
    /\ call = NoCall
    /\ result = NoResult
    /\ NoMain

\* Analyzer.run
Run(c) ==
    /\ pc = "analyzer"
    /\ call' = c
    /\ result' = run(df, c.filter_spec, c.analyze_cols, c.top_values_per_col,
                     c.combo_top_n, c.min_group_size)
    /\ pc' = "returned"
    /\ UNCHANGED <<df, main_vars>>

Init == AnalyzerInit(RankTables)

Next == \E c \in RankCalls : Run(c)

Spec == Init /\ [][Next]_vars

NextOrder == \E c \in OrderCalls : Run(c)

SpecOrder == Init /\ [][NextOrder]_vars

InitFilter == AnalyzerInit(FilterTables)

NextFilter == \E c \in FilterCalls : Run(c)

SpecFilter == InitFilter /\ [][NextFilter]_vars

InitCells == AnalyzerInit(CellTables)

NextCells == \E c \in CellCalls : Run(c)

SpecCells == InitCells /\ [][NextCells]_vars
(***************************************************************************)
(* util.py: resolution of a column token.                                  *)
(***************************************************************************)
IsUpper(c) == Ord(c) >= 65 /\ Ord(c) <= 90
IsLower(c) == Ord(c) >= 97 /\ Ord(c) <= 122

\* str.isalpha(): at least one character, all of them letters
isalpha(s) == s # <<>> /\ \A i \in 1..Len(s) : IsUpper(s[i]) \/ IsLower(s[i])

\* ord(ch) of the upper-cased character
UpperOrd(c) == IF IsLower(c) THEN Ord(c) - 32 ELSE Ord(c)

\* the loop of excel_col_to_index
RECURSIVE ExcelIdx(_, _)
ExcelIdx(col, acc) ==
    IF col = <<>> THEN acc
    ELSE ExcelIdx(Tail(col), acc * 26 + (UpperOrd(Head(col)) - 65 + 1))

\* util.py: excel_col_to_index, for a col that passes its isalpha test
excel_col_to_index(col) == ExcelIdx(strip(col), 0) - 1

\* util.py: resolve_col; error is NoError when a column is returned
resolve_col(df_columns, token) ==
    IF token \in Names(df_columns) THEN [error |-> NoError, column |-> token]
    ELSE IF isalpha(strip(token))
    THEN LET i == excel_col_to_index(strip(token))
         IN  IF i < 0 \/ i >= Len(df_columns)
             THEN [error |-> KeyError("Excel column out of range", <<token>>), column |-> <<>>]
             ELSE [error |-> NoError, column |-> df_columns[i + 1]]
    ELSE [error |-> KeyError("Column not found", <<token>>), column |-> <<>>]

(***************************************************************************)
(* load.py, report.py, main.py: the batch of input files.                  *)
(***************************************************************************)
\* pathlib: a path of the data directory, by its stem and its suffix
Path(stem, suffix) == [stem |-> stem, suffix |-> suffix]

\* Path.name
PathName(p) == p.stem \o p.suffix

\* load.py: SUPPORTED_EXT
SUPPORTED_EXT == { <<".", "x", "l", "s", "x">>, <<".", "x", "l", "s">>, <<".", "c", "s", "v">> }

\* the paths of a set in ascending order of name.lower()
RECURSIVE SortedByLowerName(_)
SortedByLowerName(S) ==
    IF S = {} THEN <<>>
    ELSE LET m == CHOOSE p \in S :
                      \A o \in S \ {p} : StrLess(lower(PathName(p)), lower(PathName(o)))
         IN  <<m>> \o SortedByLowerName(S \ {m})

\* DataLoader.list_supported_files, for a data directory that exists
list_supported_files(dir) ==
    SortedByLowerName({p \in DOMAIN dir.entries : lower(p.suffix) \in SUPPORTED_EXT})

\* DataLoader.resolve_files: the files, or the error raised
resolve_files(dir, filenames) ==
    IF filenames = <<>>
    THEN IF ~dir.exists
         THEN [error |-> "FileNotFoundError", files |-> <<>>]
         ELSE IF list_supported_files(dir) = <<>>
         THEN [error |-> "FileNotFoundError", files |-> <<>>]
         ELSE [error |-> "none", files |-> list_supported_files(dir)]
    ELSE IF \E i \in 1..Len(filenames) :
                /\ \A j \in 1..(i - 1) :
                      /\ filenames[j] \in DOMAIN dir.entries
                      /\ lower(filenames[j].suffix) \in SUPPORTED_EXT
                /\ filenames[i] \notin DOMAIN dir.entries
    THEN [error |-> "FileNotFoundError", files |-> <<>>]
    ELSE IF \E i \in 1..Len(filenames) : lower(filenames[i].suffix) \notin SUPPORTED_EXT
    THEN [error |-> "ValueError", files |-> <<>>]
    ELSE [error |-> "none", files |-> filenames]

\* DataLoader.load_path: the table read from a supported file
load_path(dir, path) == dir.entries[path]

\* main.py: report_name
report_name(path) ==
    path.stem \o <<"_", "i", "n", "b", "o", "u", "n", "d", "_", "r", "e", "p", "o", "r", "t",
                   ".", "m", "d">>

\* MarkdownReportWriter.write: the document written, by what it renders
\* (the time of writing left out)
Report(res, source_file) == [source_file |-> source_file, result |-> res]

\* write_text: the output directory with the document at name
WriteText(dir, name, doc) ==
    [n \in DOMAIN dir \cup {name} |-> IF n = name THEN doc ELSE dir[n]]

\* main.py: the resolution of the column tokens for a loaded table
ResolvedAnalyzeCols(d) ==
    [j \in 1..Len(args.analyze_cols) |-> resolve_col(d.columns, args.analyze_cols[j])]

ResolveFails(d) ==
    \/ resolve_col(d.columns, args.filter_col).error.type # "none"
    \/ \E j \in 1..Len(args.analyze_cols) : ResolvedAnalyzeCols(d)[j].error.type # "none"

\* main.py: the Analyzer.run call of the loop body
MainCall(d) ==
    Call(FilterSpec(resolve_col(d.columns, args.filter_col).column, args.filter_val),
         [j \in 1..Len(args.analyze_cols) |-> ResolvedAnalyzeCols(d)[j].column],
         args.top_values, args.top_combos, args.min_group_size)

\* main: loader.resolve_files(args.files) returns the files
ResolveFilesOk ==
    /\ pc = "start"
    /\ resolve_files(data_dir, args.files).error = "none"
    /\ files' = resolve_files(data_dir, args.files).files
    /\ idx' = 1
    /\ pc' = "loop"
    /\ UNCHANGED <<df, call, result, data_dir, args, out_dir>>

\* main: loader.resolve_files(args.files) raises
ResolveFilesFails ==
    /\ pc = "start"
    /\ resolve_files(data_dir, args.files).error # "none"
    /\ pc' = "failed"
    /\ UNCHANGED <<df, call, result, data_dir, args, files, idx, out_dir>>

\* main: one pass of the for loop: load, resolve the columns, analyze, write
ProcessFileOk ==
    /\ pc = "loop"
    /\ idx <= Len(files)
    /\ \E d \in {load_path(data_dir, files[idx])} :
          /\ ~ResolveFails(d)
          /\ \E c \in {MainCall(d)} :
                \E res \in {run(d, c.filter_spec, c.analyze_cols, c.top_values_per_col,
                                 c.combo_top_n, c.min_group_size)} :
                    /\ res.status = "ok"
                    /\ df' = d
                    /\ call' = c
                    /\ result' = res
                    /\ out_dir' = WriteText(out_dir, report_name(files[idx]),
                                            Report(res, files[idx]))
    /\ idx' = idx + 1
    /\ UNCHANGED <<data_dir, args, files, pc>>

\* the loop body raises for the table d: a column token does not resolve,
\* or Analyzer.run raises
BodyRaises(d) ==
    \/ ResolveFails(d)
    \/ /\ ~ResolveFails(d)
       /\ \E c \in {MainCall(d)} :
             run(d, c.filter_spec, c.analyze_cols, c.top_values_per_col,
                 c.combo_top_n, c.min_group_size).status = "error"

\* main: one pass of the for loop that raises; the exception ends main
ProcessFileFails ==
    /\ pc = "loop"
    /\ idx <= Len(files)
    /\ \E d \in {load_path(data_dir, files[idx])} : BodyRaises(d)
    /\ pc' = "failed"
    /\ UNCHANGED <<df, call, result, data_dir, args, files, idx, out_dir>>

\* main: the for loop is over
Finish ==
    /\ pc = "loop"
    /\ idx > Len(files)
    /\ pc' = "done"
    /\ UNCHANGED <<df, call, result, data_dir, args, files, idx, out_dir>>

\* the candidate files of the data directory
A_csv == Path(<<"A">>, <<".", "c", "s", "v">>)
A_xlsx == Path(<<"A">>, <<".", "x", "l", "s", "x">>)
B_csv == Path(<<"B">>, <<".", "c", "s", "v">>)
notes_txt == Path(<<"n", "o", "t", "e", "s">>, <<".", "t", "x", "t">>)

MainTables ==
    {DataFrame(<<f, g>>, rows) :
        rows \in { << <<Text(<<>>), Text(<<"a">>)>> >>,
                   << <<Text(<<"y">>), Text(<<"a">>)>>, <<None, Text(<<"b">>)>> >> }}

\* every data directory: absent, or any of the candidate files with a table
DataDirs ==
    {[exists |-> FALSE, entries |-> <<>>]}
    \cup {[exists |-> TRUE, entries |-> e] :
            e \in UNION {[S -> MainTables] : S \in SUBSET {A_csv, A_xlsx, B_csv, notes_txt}}}

\* parse_args: the command lines
MainArgs ==
    [files : {<<>>, <<A_xlsx, A_csv>>, <<B_csv>>, <<B_csv, notes_txt>>},
     filter_col : {f, <<"A">>},
     filter_val : {leer},
     analyze_cols : {<<g>>, << <<"B">> >>, <<g, z>>, << <<"1">> >>},
     top_values : {DefaultTopValues},
     top_combos : {DefaultTopCombos},
     min_group_size : {DefaultMinGroupSize}]

InitMain ==
    /\ pc = "start"
    /\ df = DataFrame(<<>>, <<>>)
    /\ call = NoCall
    /\ result = NoResult
    /\ data_dir \in DataDirs
    /\ args \in MainArgs
    /\ files = <<>>
    /\ idx = 0
    /\ out_dir = <<>>

NextMain ==
    \/ ResolveFilesOk
    \/ ResolveFilesFails
    \/ ProcessFileOk
    \/ ProcessFileFails
    \/ Finish

SpecMain == InitMain /\ [][NextMain]_vars

(***************************************************************************)
(* C1: the filter matcher.                                                 *)
(***************************************************************************)
\* the run has returned a result for a filter on column g
C1_Returned == pc = "returned" /\ result.status = "ok"

\* the filter expression, trimmed and lower-cased
C1_Expression == lower(strip(call.filter_spec.value))

C1_EmptyTokens ==
    { <<"l", "e", "e", "r">>, <<"e", "m", "p", "t", "y">>, <<"b", "l", "a", "n", "k">>,
      <<"n", "u", "l", "l">>, <<"n", "o", "n", "e">>, <<>> }

C1_NotEmptyTokens ==
    { <<"n", "i", "c", "h", "t", "l", "e", "e", "r">>,
      <<"n", "o", "t", "e", "m", "p", "t", "y">>,
      <<"n", "o", "t", "_", "e", "m", "p", "t", "y">> }

\* the cell is missing or entirely whitespace
C1_CellIsEmpty(x) ==
    \/ x.kind \in {"None", "float_nan", "NaT"}
    \/ x.kind = "str" /\ \A i \in 1..Len(x.s) : x.s[i] = " "

\* the text of a cell: none for None and NaN, else its string representation
C1_CellText(x) ==
    CASE x.kind \in {"None", "float_nan"} -> <<>>
      [] x.kind = "NaT" -> <<"N", "a", "T">>
      [] OTHER -> x.s

C1_Verdict(x) ==
    IF C1_Expression \in C1_EmptyTokens THEN C1_CellIsEmpty(x)
    ELSE IF C1_Expression \in C1_NotEmptyTokens THEN ~C1_CellIsEmpty(x)
    ELSE lower(strip(C1_CellText(x))) = C1_Expression

\* C1: the mask of match_filter has one entry per row; the entry is the
\* empty test under an empty token, its negation under a not-empty token,
\* and otherwise whole-string equality of the trimmed, lower-cased cell with
\* the trimmed, lower-cased expression; an empty token never selects a cell
\* that has text other than whitespace.
C1_MatchFilter ==
    C1_Returned =>
        /\ Len(result.mask) = Len(df.rows)
        /\ \A i \in 1..Len(df.rows) :
              LET x == Series(df, call.filter_spec.column)[i]
              IN  /\ result.mask[i] = C1_Verdict(x)
                  /\ (C1_Expression \in C1_EmptyTokens /\ result.mask[i])
                        => ~(x.kind \in {"str", "int"} /\ \E j \in 1..Len(x.s) : x.s[j] # " ")

\* C1 witness: the filter "null" was applied to a column that holds the text
\* "null" and a missing cell, and selected only the missing one.
C1_Witness ==
    /\ C1_Returned
    /\ C1_Expression = <<"n", "u", "l", "l">>
    /\ Len(df.rows) = 2
    /\ df.rows[1][1] = Text(<<"n", "u", "l", "l">>)
    /\ df.rows[2][1] = NaN
    /\ result.mask = <<FALSE, TRUE>>
(***************************************************************************)
(* Groups, as the claims describe them: by a direct count over the rows.   *)
(***************************************************************************)
Returned == pc = "returned" /\ result.status = "ok"

\* the rows of df whose normalized cell of column col is v
RowsWithValue(col, v) == {i \in 1..Len(df.rows) : normalize_str(Series(df, col)[i]) = v}

RowsMatched(rows) == {i \in rows : result.mask[i]}

\* the label of a normalized value
Label(v) == IF v = <<>> THEN EMPTY ELSE v

\* one ValueStats per distinct normalized value of column col
ValueGroups(col) ==
    {[value |-> Label(v), total |-> Cardinality(RowsWithValue(col, v)),
      matched |-> Cardinality(RowsMatched(RowsWithValue(col, v)))] :
        v \in {normalize_str(Series(df, col)[i]) : i \in 1..Len(df.rows)}}

\* the placeholder-substituted values of row i in the columns cols
ComboValues(cols, i) == [j \in 1..Len(cols) |-> Label(normalize_str(Series(df, cols[j])[i]))]

RowsWithCombo(cols, vs) == {i \in 1..Len(df.rows) : ComboValues(cols, i) = vs}

\* one ComboRow per distinct value tuple of the columns cols
ComboGroups(cols) ==
    {[columns |-> cols, values |-> vs, total |-> Cardinality(RowsWithCombo(cols, vs)),
      matched |-> Cardinality(RowsMatched(RowsWithCombo(cols, vs)))] :
        vs \in {ComboValues(cols, i) : i \in 1..Len(df.rows)}}

\* a ranks strictly better than b: percentage, then matched, then total
BetterByPct(a, b) ==
    \/ a.matched * b.total > b.matched * a.total
    \/ a.matched * b.total = b.matched * a.total /\ a.matched > b.matched
    \/ a.matched * b.total = b.matched * a.total /\ a.matched = b.matched /\ a.total > b.total

\* a ranks strictly better than b: matched, then total
BetterByMatched(a, b) ==
    \/ a.matched > b.matched
    \/ a.matched = b.matched /\ a.total > b.total

Min(a, b) == IF a < b THEN a ELSE b

(***************************************************************************)
(* C2: the column aggregator.                                              *)
(***************************************************************************)
C2_ColumnOk(j) ==
    LET col == call.analyze_cols[j]
        stats == result.per_column[j].stats
        qualifying == {x \in ValueGroups(col) : x.total >= call.min_group_size}
        shown == {stats[i] : i \in 1..Len(stats)}
    IN  /\ result.per_column[j].column = col
        /\ Len(stats) = Min(call.top_values_per_col, Cardinality(qualifying))
        /\ Cardinality(shown) = Len(stats)
        /\ shown \subseteq qualifying
        /\ \A i \in 1..Len(stats) - 1 : ~BetterByPct(stats[i + 1], stats[i])
        /\ \A x \in qualifying \ shown : \A y \in shown : ~BetterByPct(x, y)

\* C2: the stats of every analysis column are the first N of the groups of
\* that column with total >= M, ranked by percentage, then matched, then
\* total, all descending.
C2_ColumnRanking ==
    Returned =>
        /\ Len(result.per_column) = Len(call.analyze_cols)
        /\ \A j \in 1..Len(call.analyze_cols) : C2_ColumnOk(j)

\* C2 witness: of two groups with the same matched count the one with the
\* higher percentage (1 of 1) is kept by N = 1 and the larger one (1 of 2)
\* is cut.
C2_Witness ==
    /\ Returned
    /\ call.analyze_cols = <<g>>
    /\ call.top_values_per_col = 1
    /\ call.min_group_size = 1
    /\ ValueGroups(g) = {[value |-> <<"a">>, total |-> 2, matched |-> 1],
                         [value |-> <<"b">>, total |-> 1, matched |-> 1]}
    /\ result.per_column[1].stats = <<[value |-> <<"b">>, total |-> 1, matched |-> 1]>>

(***************************************************************************)
(* C3: the combination aggregator.                                         *)
(***************************************************************************)
C3_LevelOk(k) ==
    LET cols_k == SubSeq(call.analyze_cols, 1, k)
        top == result.combos[k].top
    IN  /\ result.combos[k].columns = cols_k
        /\ Len(top) <= call.combo_top_n
        /\ \A i \in 1..Len(top) :
              /\ top[i] \in ComboGroups(cols_k)
              /\ top[i].total >= call.min_group_size
        /\ \A i \in 1..Len(top) - 1 : ~BetterByMatched(top[i + 1], top[i])

\* C3: analyze_combos returns one ComboAnalysis per prefix length k = 1..n,
\* in increasing k; entry k is over the first k analysis columns, and its
\* top list holds at most N groups, each with total >= M, sorted by matched
\* descending, then total descending.
C3_ComboRanking ==
    Returned =>
        /\ Len(result.combos) = Len(call.analyze_cols)
        /\ \A k \in 1..Len(call.analyze_cols) : C3_LevelOk(k)

\* C3 witness: two analysis columns give two levels, and at level 1 the
\* group with 1 of 2 matched comes before the group with 1 of 1 (same
\* matched, larger total), against the order of the percentages.
C3_Witness ==
    /\ Returned
    /\ call.analyze_cols = <<g, h>>
    /\ call.combo_top_n = 2
    /\ call.min_group_size = 1
    /\ Len(result.combos) = 2
    /\ result.combos[2].columns = <<g, h>>
    /\ Len(result.combos[1].top) = 2
    /\ result.combos[1].top[1].total = 2
    /\ result.combos[1].top[1].matched = 1
    /\ result.combos[1].top[2].total = 1
    /\ result.combos[1].top[2].matched = 1
(***************************************************************************)
(* C7: the result does not depend on the order of the rows.                *)
(***************************************************************************)
\* df with rows i and j exchanged
Swapped(d, i, j) ==
    DataFrame(d.columns,
              [n \in 1..Len(d.rows) |->
                  IF n = i THEN d.rows[j] ELSE IF n = j THEN d.rows[i] ELSE d.rows[n]])

RunAgain(d) ==
    run(d, call.filter_spec, call.analyze_cols, call.top_values_per_col,
        call.combo_top_n, call.min_group_size)

\* C7: the table with two neighbouring rows exchanged gives the same
\* per_column and combos, entry for entry, under the same arguments; the
\* tables are closed under such exchanges and every row permutation is a
\* sequence of them, so the same holds of any row permutation.
C7_RowOrder ==
    Returned =>
        \A i \in 1..(Len(df.rows) - 1) :
            \E again \in {RunAgain(Swapped(df, i, i + 1))} :
                /\ again.per_column = result.per_column
                /\ again.combos = result.combos

\* C7 witness: the values b and a, in this row order, tie on percentage,
\* matched and total; N = 1 for both lists keeps a and cuts b.
C7_Witness ==
    /\ Returned
    /\ call.analyze_cols = <<g>>
    /\ call.top_values_per_col = 1
    /\ call.combo_top_n = 1
    /\ call.min_group_size = 1
    /\ Len(df.rows) = 2
    /\ Series(df, g) = <<Text(<<"b">>), Text(<<"a">>)>>
    /\ result.mask = <<TRUE, TRUE>>
    /\ result.per_column[1].stats = <<ValueStats(<<"a">>, 1, 1)>>
    /\ result.combos[1].top = <<ComboRow(<<g>>, << <<"a">> >>, 1, 1)>>

(***************************************************************************)
(* C8: the file-level totals.                                              *)
(***************************************************************************)
\* C8: file_rows is the number of rows, filter_matched_total the number of
\* true entries of the mask, between 0 and file_rows, and
\* filter_matched_pct is 0 for a table without rows and otherwise
\* 100 * filter_matched_total / file_rows.
C8_FileTotals ==
    Returned =>
        /\ result.file_rows = Len(df.rows)
        /\ result.filter_matched_total =
              Cardinality({i \in 1..Len(result.mask) : result.mask[i]})
        /\ 0 <= result.filter_matched_total
        /\ result.filter_matched_total <= result.file_rows
        /\ result.filter_matched_pct.den # 0
        /\ IF result.file_rows = 0
           THEN result.filter_matched_pct.num = 0
           ELSE result.filter_matched_pct.num * result.file_rows
                    = 100 * result.filter_matched_total * result.filter_matched_pct.den

\* C8 witness: a run over a table without rows returned, with 0 percent.
C8_Witness ==
    /\ Returned
    /\ Len(df.rows) = 0
    /\ result.file_rows = 0
    /\ result.filter_matched_total = 0
    /\ result.filter_matched_pct = [num |-> 0, den |-> 1]

(***************************************************************************)
(* C5: validation of the requested columns.                                *)
(***************************************************************************)
\* the requested columns that the table does not have
C5_Missing ==
    {c \in Names(call.analyze_cols) \cup {call.filter_spec.column} : ~HasColumn(df, c)}

\* C5: when a requested column is absent the run fails with one error that
\* names every missing column, the filter column included, and nothing is
\* computed.
C5_AllMissingNamed ==
    (pc = "returned" /\ C5_Missing # {}) =>
        /\ result.status = "error"
        /\ Names(result.error.names) = C5_Missing
        /\ result.mask = <<>>
        /\ result.per_column = <<>>
        /\ result.combos = <<>>
(***************************************************************************)
(* C4: every row is counted once per column and once per prefix level.     *)
(***************************************************************************)
RECURSIVE SumTotal(_)
SumTotal(entries) ==
    IF entries = <<>> THEN 0 ELSE Head(entries).total + SumTotal(Tail(entries))

RECURSIVE SumMatched(_)
SumMatched(entries) ==
    IF entries = <<>> THEN 0 ELSE Head(entries).matched + SumMatched(Tail(entries))

\* the number of groups of column col, and of the prefix cols
NumValueGroups(col) ==
    Cardinality({normalize_str(Series(df, col)[i]) : i \in 1..Len(df.rows)})

NumComboGroups(cols) == Cardinality({ComboValues(cols, i) : i \in 1..Len(df.rows)})

\* nothing is filtered (M <= 1) and nothing is truncated (N >= groups)
C4_NothingCut ==
    /\ call.min_group_size <= 1
    /\ \A j \in 1..Len(call.analyze_cols) :
          /\ call.top_values_per_col >= NumValueGroups(call.analyze_cols[j])
          /\ call.combo_top_n >= NumComboGroups(SubSeq(call.analyze_cols, 1, j))

\* the rows whose cell of column col is None, a float NaN or only whitespace
C4_BlankRows(col) ==
    {i \in 1..Len(df.rows) :
        LET x == Series(df, col)[i]
        IN  \/ x.kind \in {"None", "float_nan"}
            \/ x.kind = "str" /\ \A n \in 1..Len(x.s) : x.s[n] = " "}

\* C4: with M <= 1 and caps that cut nothing, the totals of every column's
\* stats and of every level's combos sum to file_rows and their matched
\* counts to filter_matched_total; the rows whose cell is None, NaN or
\* only whitespace are counted in them, all in one group of the column.
C4_EveryRowCounted ==
    (Returned /\ C4_NothingCut) =>
        \A j \in 1..Len(call.analyze_cols) :
            /\ SumTotal(result.per_column[j].stats) = result.file_rows
            /\ SumMatched(result.per_column[j].stats) = result.filter_matched_total
            /\ SumTotal(result.combos[j].top) = result.file_rows
            /\ SumMatched(result.combos[j].top) = result.filter_matched_total
            /\ C4_BlankRows(call.analyze_cols[j]) # {} =>
                  \E i \in 1..Len(result.per_column[j].stats) :
                      LET st == result.per_column[j].stats[i]
                          blank == C4_BlankRows(call.analyze_cols[j])
                      IN  /\ st.value = EMPTY
                          /\ st.total = Cardinality(blank)
                          /\ st.matched = Cardinality(RowsMatched(blank))

\* C4 witness: three rows whose g cells are None, NaN and a blank are all
\* counted, in the one group of g, and in the combos of g and h.
C4_Witness ==
    /\ Returned
    /\ C4_NothingCut
    /\ call.analyze_cols = <<g, h>>
    /\ Series(df, g) = <<None, NaN, Text(<<" ">>)>>
    /\ result.per_column[1].stats = <<ValueStats(EMPTY, 3, 3)>>
    /\ SumTotal(result.combos[2].top) = 3

(***************************************************************************)
(* C6: the placeholder of the empty value.                                 *)
(***************************************************************************)
\* C6: no ColumnAnalysis holds two ValueStats with the same label, and no
\* ComboRow counts a row with an empty cell together with a row with a
\* non-empty cell of the same column.
C6_PlaceholderDistinct ==
    Returned =>
        /\ \A j \in 1..Len(result.per_column) :
              LET stats == result.per_column[j].stats
              IN  \A a \in 1..Len(stats) : \A b \in 1..Len(stats) :
                      stats[a].value = stats[b].value => a = b
        /\ \A k \in 1..Len(result.combos) : \A i \in 1..Len(result.combos[k].top) :
              LET row == result.combos[k].top[i]
                  rows == RowsWithCombo(row.columns, row.values)
              IN  \A c \in 1..k : \A r1 \in rows : \A r2 \in rows :
                      C1_CellIsEmpty(Series(df, row.columns[c])[r1])
                          = C1_CellIsEmpty(Series(df, row.columns[c])[r2])

(***************************************************************************)
(* C10: the filter's verdict and the grouping, on one and the same column. *)
(***************************************************************************)
C10_EmptyToken == lower(strip(call.filter_spec.value)) \in C1_EmptyTokens

\* C10: when the filter column is an analysis column, every group keyed on
\* it has matched = 0 or matched = total, in per_column and in every prefix
\* level that includes the column; under an empty-token filter only the
\* group labelled <EMPTY> has matched > 0.
C10_VerdictAgreesWithGrouping ==
    Returned =>
        \A j \in 1..Len(call.analyze_cols) :
            call.analyze_cols[j] = call.filter_spec.column =>
                /\ \A i \in 1..Len(result.per_column[j].stats) :
                      LET st == result.per_column[j].stats[i]
                      IN  /\ st.matched = 0 \/ st.matched = st.total
                          /\ (C10_EmptyToken /\ st.matched > 0) => st.value = EMPTY
                /\ \A k \in j..Len(result.combos) : \A i \in 1..Len(result.combos[k].top) :
                      LET row == result.combos[k].top[i]
                      IN  /\ row.matched = 0 \/ row.matched = row.total
                          /\ (C10_EmptyToken /\ row.matched > 0) => row.values[j] = EMPTY
(***************************************************************************)
(* C9: one report per input file.                                          *)
(***************************************************************************)
\* C9: when main has processed its input files without error, the output
\* directory holds as many reports as there were input files, and the
\* report named from each input file is the one written for that file.
C9_OneReportPerFile ==
    pc = "done" =>
        /\ Cardinality(DOMAIN out_dir) = Cardinality(Names(files))
        /\ \A i \in 1..Len(files) :
              /\ report_name(files[i]) \in DOMAIN out_dir
              /\ out_dir[report_name(files[i])].source_file = files[i]
====
